---- MODULE Spec2Model ----
(***************************************************************************)
(* A model of the TEDS codec of SDLMA-Core (sdlma_teds/teds.py and         *)
(* sdlma_teds/teds_element.py).                                            *)
(*                                                                         *)
(* A bitstring is a sequence of 0/1, index 1 being bit 0 of the stream.    *)
(* A decoded string is the sequence of its characters' code points.        *)
(* A scaled parameter (start, step) is the exact fraction <<num, den>>.    *)
(***************************************************************************)
EXTENDS Integers, Sequences, FiniteSets, TLC

VARIABLES
    dec,    \* one StandardTeds object under construction / constructed
    file,   \* the outcome of write_to_file on that object
    un,     \* one element exercised on its own
    pair,   \* two StandardTeds constructors running interleaved
    ema     \* one SDLMAEMA object and the calls made on it

vars == <<dec, file, un, pair, ema>>

----------------------------------------------------------------------------
(* Bounds of the model *)

\* widest UnsignedInt element exercised on its own
MaxLen == 9
\* the raw values written into the fields of a generated stream: 0..MaxFill
MaxFill == 2
\* the longest user_data tail of a generated stream, in bits
MaxUserBits == 8
\* generated streams are also cut short by 0..MaxCut times CutStride bits
MaxCut == 1
CutStride == 45
\* Chr5 elements exercised on their own hold 1..MaxGroups characters
MaxGroups == 2
\* Ascii elements exercised on their own are given windows of 0..MaxAsciiBits bits
MaxAsciiBits == 9
\* scaled elements exercised on their own hold the raw codes 0..MaxCode and
\* their largest code
MaxCode == 9
\* documents built by a caller start with at most MaxUnset fields unset and the
\* others at raw code 0; the caller then sets fields to the codes 0..MaxSetCode
\* lists handed to convert_nidaqmax_list_to_bitstream hold 0..MaxItems integers
MaxItems == 3
\* the measurement objects a caller has at hand are 1..MaxMeas
MaxMeas == 2
MaxUnset == 2
MaxSetCode == 1

----------------------------------------------------------------------------
(* Bit-level helpers: BasicTedsElement *)

Pow2(n) == 2 ^ n

Zeros(n) == [i \in 1..n |-> 0]

\* a variant that pads in front of the field (used to test the claims below)
zero_pad_bitstream_front(b) ==
    Zeros(((Len(b) + 7) \div 8) * 8 - Len(b)) \o b

\* math.ceil(len / 8) * 8 - len zeros appended
zero_pad_bitstream(b) ==
    LET target_len == ((Len(b) + 7) \div 8) * 8
        pad == target_len - Len(b)
    IN  b \o Zeros(pad)

\* bitstream[::-1]
reverse_bitstream(b) == [i \in 1..Len(b) |-> b[Len(b) + 1 - i]]

\* int.from_bytes(bits, signed=False): the bytes of a bitstring read big-endian,
\* which is the bitstring read as one binary numeral, first bit most significant
RECURSIVE from_bytes(_)
from_bytes(b) ==
    IF b = <<>> THEN 0
    ELSE 2 * from_bytes(SubSeq(b, 1, Len(b) - 1)) + b[Len(b)]

\* Bits(uint=v, length=n): the n-digit binary numeral of v, most significant
\* bit first; bitstring raises CreationError when v does not fit or n = 0
uint_fits(v, n) == n >= 1 /\ v >= 0 /\ v < Pow2(n)

Bits_uint(v, n) == [i \in 1..n |-> (v \div Pow2(n - i)) % 2]

\* a variant that forgets the reversal (used to test the claims below)
to_bitstream_unreversed(len, int_val) == Bits_uint(int_val, len)

\* BasicTedsElement.to_bitstream
to_bitstream(len, int_val) == reverse_bitstream(Bits_uint(int_val, len))

----------------------------------------------------------------------------
(* UnIntTedsElement *)

UnInt_from_bits(bitstream) ==
    from_bytes(reverse_bitstream(zero_pad_bitstream(bitstream)))

UnInt_to_bits(len, val) == to_bitstream(len, val)

----------------------------------------------------------------------------
(* Field elements.  One record shape for every element class:              *)
(*   kind   the class (UnInt, Chr5, Ascii, Date, ConRes, ConRelRes,        *)
(*          Constant)                                                      *)
(*   len    the width in bits, -1 for "the rest of the stream"             *)
(*   start, step   the scaling parameters of ConRes / ConRelRes            *)
(*   isset  val is not None                                                *)
(*   num    val of a numeric element                                       *)
(*   text   val of a string element, as code points                        *)
(*   label  val of a ConstantTedsElement                                   *)
(* The val of a Date is the proleptic ordinal of the day.  The val of a    *)
(* ConRes, start + raw * step, is kept exactly as the numerator over       *)
(* start.den * step.den.  The val of a ConRelRes,                          *)
(* start * (1 + 2 * step) ** raw, is kept as its exponent: 1 + 2 * step    *)
(* exceeds 1 for every element of the templates, so the power determines   *)
(* the exponent.                                                           *)
(***************************************************************************)

NoScale == <<0, 1>>

Elem(name, kind, len, start, step, isset, text, label) ==
    [name |-> name, kind |-> kind, len |-> len, start |-> start, step |-> step,
     isset |-> isset, num |-> 0, text |-> text, label |-> label]

UnIntTedsElement(name, len) ==
    Elem(name, "UnInt", len, NoScale, NoScale, FALSE, <<>>, "")
Chr5TedsElement(name, len) ==
    Elem(name, "Chr5", len, NoScale, NoScale, TRUE, <<>>, "")
AsciiTedsElement(name, len) ==
    Elem(name, "Ascii", len, NoScale, NoScale, TRUE, <<>>, "")
DateTedsElement(name, len) ==
    Elem(name, "Date", len, NoScale, NoScale, FALSE, <<>>, "")
ConResTedsElement(name, len, start, step) ==
    Elem(name, "ConRes", len, start, step, FALSE, <<>>, "")
ConRelResTedsElement(name, len, start, step) ==
    Elem(name, "ConRelRes", len, start, step, FALSE, <<>>, "")
ConstantTedsElement(name, len, val) ==
    Elem(name, "Constant", len, NoScale, NoScale, TRUE, <<>>, val)

\* datetime(1998, 1, 1).toordinal()
EpochOrdinal == 729390

\* Chr5TedsElement.from_bits: one character per started group of 5 bits, each
\* read with read(5), which raises ReadError on a short last group
Chr5_ok(bitstream) == Len(bitstream) % 5 = 0

\* ord("`")
BackTick == 96

Chr5_text(bitstream) ==
    [g \in 1..(Len(bitstream) \div 5) |->
        BackTick + from_bytes(reverse_bitstream(zero_pad_bitstream(
                       SubSeq(bitstream, 5 * g - 4, 5 * g))))]

\* AsciiTedsElement.from_bits: a group of 7 is read only while 7 bits remain,
\* so a tail of fewer than 7 bits is left unread
Ascii_text(bitstream) ==
    [g \in 1..(Len(bitstream) \div 7) |->
        from_bytes(reverse_bitstream(zero_pad_bitstream(
            SubSeq(bitstream, 7 * g - 6, 7 * g))))]

\* A parameter written as an integer literal is a Python int, any other a float
IsIntLit(r) == r[2] = 1

\* 3.0 ** 646 is the last power of 3 below the largest double
MaxPow3 == 646

\* ConRelResTedsElement.from_bits raises OverflowError when the product
\* start * (1 + 2 * step) ** raw leaves the doubles.  With a float step the
\* largest power of the templates is 1.06 ** 255; with step = 1 the power is
\* the int 3 ** raw, converted to a double only when start is a float.
ConRelRes_overflows(e, raw) ==
    /\ IsIntLit(e.step)
    /\ ~IsIntLit(e.start)
    /\ 1 + 2 * e.step[1] = 3
    /\ raw > MaxPow3

\* from_bits of every class: the element with its val set from the window.
\* ok is FALSE when from_bits raises err.
from_bits(e, bitstream) ==
    LET raw == from_bytes(reverse_bitstream(zero_pad_bitstream(bitstream)))
        set(x) == [ok |-> TRUE, err |-> "", e |-> x]
    IN  CASE e.kind = "UnInt" ->
               set([e EXCEPT !.isset = TRUE, !.num = UnInt_from_bits(bitstream)])
          [] e.kind = "Date" ->
               set([e EXCEPT !.isset = TRUE, !.num = EpochOrdinal + raw])
          [] e.kind = "ConRes" ->
               set([e EXCEPT !.isset = TRUE,
                             !.num = e.start[1] * e.step[2]
                                     + raw * e.step[1] * e.start[2]])
          [] e.kind = "ConRelRes" ->
               IF ConRelRes_overflows(e, raw)
               THEN [ok |-> FALSE, err |-> "OverflowError", e |-> e]
               ELSE set([e EXCEPT !.isset = TRUE, !.num = raw])
          [] e.kind = "Chr5" ->
               IF Chr5_ok(bitstream)
               THEN set([e EXCEPT !.isset = TRUE, !.text = Chr5_text(bitstream)])
               ELSE [ok |-> FALSE, err |-> "ReadError", e |-> e]
          [] e.kind = "Ascii" ->
               set([e EXCEPT !.isset = TRUE, !.text = Ascii_text(bitstream)])
          [] OTHER -> set(e)

----------------------------------------------------------------------------
(* The templates of StandardTeds: each td dict as the sequence of its      *)
(* items in insertion order.                                               *)

\* a variant with two fields swapped (used to test the claims below)
HeaderTdSwapped ==
    << UnIntTedsElement("manufacturer_id", 14),
       UnIntTedsElement("model_number", 15),
       UnIntTedsElement("version_number", 6),
       UnIntTedsElement("version_letter", 5),
       UnIntTedsElement("serial_number", 24),
       UnIntTedsElement("start_selector", 2),
       UnIntTedsElement("template_id", 8) >>

HeaderTd ==
    << UnIntTedsElement("manufacturer_id", 14),
       UnIntTedsElement("model_number", 15),
       UnIntTedsElement("version_letter", 5),
       UnIntTedsElement("version_number", 6),
       UnIntTedsElement("serial_number", 24),
       UnIntTedsElement("start_selector", 2),
       UnIntTedsElement("template_id", 8) >>

\* a variant with two fields swapped (used to test the claims below)
EndTdSwapped ==
    << DateTedsElement("calibration_date", 16),
       Chr5TedsElement("calibration_initals", 15),
       UnIntTedsElement("measurement_location_id", 11),
       UnIntTedsElement("calibration_period", 12),
       UnIntTedsElement("end_selector", 2),
       UnIntTedsElement("extended_end_selector", 1),
       AsciiTedsElement("user_data", -1) >>

EndTd ==
    << DateTedsElement("calibration_date", 16),
       Chr5TedsElement("calibration_initals", 15),
       UnIntTedsElement("calibration_period", 12),
       UnIntTedsElement("measurement_location_id", 11),
       UnIntTedsElement("end_selector", 2),
       UnIntTedsElement("extended_end_selector", 1),
       AsciiTedsElement("user_data", -1) >>

\* a variant with the widths of the last two fields exchanged (used to test
\* the claims below)
ThermocoupleTdSwapped ==
    << ConstantTedsElement("elec_sig_type", 0, "Voltage Sensor"),
       ConResTedsElement("minimum_temperature", 11, <<-273, 1>>, <<1, 1>>),
       ConResTedsElement("maximum_temperature", 11, <<-273, 1>>, <<1, 1>>),
       ConResTedsElement("minimum_electrical_output", 7, <<-25, 1000>>, <<1, 1000>>),
       ConResTedsElement("maximum_electrical_output", 7, <<-25, 1000>>, <<1, 1000>>),
       ConstantTedsElement("mapping_method", 0, "Voltage Sensor"),
       UnIntTedsElement("thermocouple_type", 4),
       UnIntTedsElement("cjc_required_or_compensated", 1),
       ConRelResTedsElement("thermocouple_resistance", 6, <<1, 1>>, <<1, 1>>),
       ConRelResTedsElement("sensor_response_time", 12, <<1, 1000000>>, <<1, 1>>) >>

ThermocoupleTd ==
    << ConstantTedsElement("elec_sig_type", 0, "Voltage Sensor"),
       ConResTedsElement("minimum_temperature", 11, <<-273, 1>>, <<1, 1>>),
       ConResTedsElement("maximum_temperature", 11, <<-273, 1>>, <<1, 1>>),
       ConResTedsElement("minimum_electrical_output", 7, <<-25, 1000>>, <<1, 1000>>),
       ConResTedsElement("maximum_electrical_output", 7, <<-25, 1000>>, <<1, 1000>>),
       ConstantTedsElement("mapping_method", 0, "Voltage Sensor"),
       UnIntTedsElement("thermocouple_type", 4),
       UnIntTedsElement("cjc_required_or_compensated", 1),
       ConRelResTedsElement("thermocouple_resistance", 12, <<1, 1>>, <<1, 1>>),
       ConRelResTedsElement("sensor_response_time", 6, <<1, 1000000>>, <<1, 1>>) >>

SelectorTd ==
    << UnIntTedsElement("acceleration_force", 1),
       UnIntTedsElement("extended_functionality", 1) >>

CommonTd ==
    << UnIntTedsElement("direction", 2),
       ConRelResTedsElement("transducer_weight", 6, <<1, 10>>, <<1, 10>>),
       ConstantTedsElement("elec_sig_type", 0, "Voltage Sensor"),
       ConstantTedsElement("map_method", 0, "Linear"),
       ConstantTedsElement("ACDCCoupling", 0, "AC"),
       UnIntTedsElement("sign", 1),
       UnIntTedsElement("transfer_function", 1) >>

RefTd ==
    << ConRelResTedsElement("ref_req", 8, <<35, 100>>, <<175, 10000>>),
       ConResTedsElement("ref_temp", 5, <<15, 1>>, <<5, 10>>) >>

\* a variant with the two fields swapped (used to test the claims below)
NoExtTdSwapped ==
    << ConRelResTedsElement("tf_hp_s", 8, <<5, 1000>>, <<3, 100>>),
       ConRelResTedsElement("sens_ref", 16, <<5, 10000000>>, <<15, 100000>>) >>

NoExtTd ==
    << ConRelResTedsElement("sens_ref", 16, <<5, 10000000>>, <<15, 100000>>),
       ConRelResTedsElement("tf_hp_s", 8, <<5, 1000>>, <<3, 100>>) >>

ExtTd ==
    << ConstantTedsElement("passive", 0, "0"),
       ConstantTedsElement("passive_ctrl_function_mask", 0, "0b11"),
       ConstantTedsElement("passive_read_write", 0, "3"),
       ConstantTedsElement("passive_function_type", 0, "0"),
       ConstantTedsElement("passive_function", 0, "xx,00"),
       ConstantTedsElement("sens_initialize", 0, "0"),
       ConstantTedsElement("sens_ctrl_function_mask", 0, "0"),
       ConstantTedsElement("sens_read_write", 0, "3"),
       ConstantTedsElement("sens_function_type", 0, "1"),
       ConstantTedsElement("sens_function_10", 0, "10"),
       ConstantTedsElement("sens_function_01", 0, "10"),
       UnIntTedsElement("default_fr", 2),
       UnIntTedsElement("multiplexer_capable", 1),
       ConRelResTedsElement("sens_ref_01", 16, <<5, 10000000>>, <<1, 1>>),
       ConRelResTedsElement("sens_ref_10", 16, <<5, 10000000>>, <<1, 1>>),
       ConRelResTedsElement("tf_hp_s_01", 8, <<5, 1000>>, <<1, 1>>),
       ConRelResTedsElement("tf_hp_s_10", 8, <<5, 1000>>, <<1, 1>>) >>

TransferTd ==
    << ConRelResTedsElement("tf_sp", 7, <<10, 1>>, <<5, 100>>),
       ConRelResTedsElement("tf_kpr", 9, <<100, 1>>, <<1, 100>>),
       ConRelResTedsElement("tf_kpq", 9, <<4, 10>>, <<1, 100>>),
       ConResTedsElement("tf_sl", 7, <<-63, 10>>, <<1, 10>>),
       ConResTedsElement("temp_coef", 6, <<-8, 10>>, <<25, 1000>>) >>

\* hex(0xDA6E0CCCBA) as the 40 bits a bitstring makes of it
ni_preamble ==
    << 1,1,0,1, 1,0,1,0,  0,1,1,0, 1,1,1,0,  0,0,0,0, 1,1,0,0,
       1,1,0,0, 1,1,0,0,  1,0,1,1, 1,0,1,0 >>

----------------------------------------------------------------------------
(* StandardTeds: the constructor, run one step at a time.                  *)
(* A decoder d is the object under construction:                           *)
(*   bitstream, pos   self.bitstream and its read position                 *)
(*   has_preamble     the constructor's flag                               *)
(*   teds             self.teds, the items in insertion order              *)
(*   td, idx          the td dict being processed and the next item        *)
(*   group            which td it is                                       *)
(*   pc               start, process, done (the constructor returned) or   *)
(*                    failed (it raised err; the caller has no object)     *)
(*   warned           check_basic_teds printed the legacy warning          *)
(*   log              every read so far: element name, bits asked for,     *)
(*                    position before the read                             *)
(***************************************************************************)

NewDecoder(bitstream, has_preamble) ==
    [bitstream |-> bitstream, pos |-> 0, has_preamble |-> has_preamble,
     teds |-> <<>>, td |-> <<>>, idx |-> 1, group |-> "none", pc |-> "start",
     err |-> "", warned |-> FALSE, log |-> <<>>]

Raise(d, err) == [d EXCEPT !.pc = "failed", !.err = err]

Begin(d, group, td) == [d EXCEPT !.group = group, !.td = td, !.idx = 1]

\* self.teds[name]
Item(teds, name) ==
    teds[CHOOSE i \in 1..Len(teds) : teds[i].name = name]

HasKey(teds, name) == \E i \in 1..Len(teds) : teds[i].name = name

\* dict.update: an existing key keeps its place and takes the new value, a new
\* key is appended
\* a variant that puts the new entries in front (used to test the claims
\* below)
DictUpdate_in_front(teds, td) == td \o teds

RECURSIVE DictUpdate(_, _)
DictUpdate(teds, td) ==
    IF td = <<>> THEN teds
    ELSE LET e == Head(td)
             next == IF HasKey(teds, e.name)
                     THEN [i \in 1..Len(teds) |->
                              IF teds[i].name = e.name THEN e ELSE teds[i]]
                     ELSE Append(teds, e)
         IN  DictUpdate(next, Tail(td))

\* a variant that reads the preamble without comparing it (used to test the
\* claims below)
Construct_unchecked(d) ==
    IF d.has_preamble
    THEN IF Len(d.bitstream) < 40
         THEN Raise(d, "ReadError")
         ELSE Begin([d EXCEPT !.pos = 40, !.pc = "process"], "header", HeaderTd)
    ELSE Begin([d EXCEPT !.pc = "process"], "header", HeaderTd)

\* a variant that strips a preamble it finds, whatever the flag (used to test
\* the claims below)
Construct_autodetect(d) ==
    IF Len(d.bitstream) >= 40 /\ SubSeq(d.bitstream, 1, 40) = ni_preamble
    THEN Begin([d EXCEPT !.pos = 40, !.pc = "process"], "header", HeaderTd)
    ELSE IF d.has_preamble
         THEN Raise(d, IF Len(d.bitstream) < 40 THEN "ReadError" ELSE "ValueError")
         ELSE Begin([d EXCEPT !.pc = "process"], "header", HeaderTd)

\* the constructor up to the first process call
Construct(d) ==
    IF d.has_preamble
    THEN IF Len(d.bitstream) < 40
         THEN Raise(d, "ReadError")
         ELSE IF SubSeq(d.bitstream, 1, 40) # ni_preamble
              THEN Raise([d EXCEPT !.pos = 40], "ValueError")
              ELSE Begin([d EXCEPT !.pos = 40, !.pc = "process"], "header", HeaderTd)
    ELSE Begin([d EXCEPT !.pc = "process"], "header", HeaderTd)

\* a variant that asks for at least one character of user data (used to test
\* the claims below)
ReadWidth_min7(d, e) ==
    IF e.len = -1
    THEN (IF Len(d.bitstream) - d.pos < 7 THEN 7 ELSE Len(d.bitstream) - d.pos)
    ELSE e.len

\* a variant that reads a byte for a field of width 0 (used to test the claims
\* below)
ReadWidth_constant_byte(d, e) ==
    IF e.len = -1 THEN Len(d.bitstream) - d.pos
    ELSE IF e.len = 0 THEN 8 ELSE e.len

\* a variant that takes whole 7-bit characters only from the rest of the
\* stream (used to test the claims below)
ReadWidth_whole_chars(d, e) ==
    IF e.len = -1 THEN 7 * ((Len(d.bitstream) - d.pos) \div 7) ELSE e.len

\* the number of bits process asks for
ReadWidth(d, e) == IF e.len = -1 THEN Len(d.bitstream) - d.pos ELSE e.len

\* a variant whose read returns the bits that are left when too few remain,
\* as a slice would (used to test the claims below)
ProcessField_short_read(d) ==
    LET e == d.td[d.idx]
        left == Len(d.bitstream) - d.pos
        n == IF ReadWidth(d, e) > left THEN left ELSE ReadWidth(d, e)
        bits == SubSeq(d.bitstream, d.pos + 1, d.pos + n)
        r == from_bits(e, bits)
        read == [d EXCEPT !.pos = d.pos + n,
                          !.log = Append(d.log, [name |-> e.name, len |-> n,
                                                 pos |-> d.pos])]
    IN  IF r.ok THEN [read EXCEPT !.td[d.idx] = r.e, !.idx = d.idx + 1]
        ELSE Raise(read, r.err)

\* one turn of the loop of process: read the window, hand it to from_bits
ProcessField(d) ==
    LET e == d.td[d.idx]
        n == ReadWidth(d, e)
    IN  IF d.pos + n > Len(d.bitstream)
        THEN Raise(d, "ReadError")
        ELSE LET bits == SubSeq(d.bitstream, d.pos + 1, d.pos + n)
                 r == from_bits(e, bits)
                 read == [d EXCEPT !.pos = d.pos + n,
                                   !.log = Append(d.log, [name |-> e.name,
                                                          len |-> n,
                                                          pos |-> d.pos])]
             IN  IF r.ok
                 THEN [read EXCEPT !.td[d.idx] = r.e, !.idx = d.idx + 1]
                 ELSE Raise(read, r.err)

\* the last line of process
process_update(d) == [d EXCEPT !.teds = DictUpdate(d.teds, d.td)]

\* self.teds["version_number"] != 2 compares the element object, not its val,
\* with an int: no UnIntTedsElement equals an int
element_ne_int(e, n) == TRUE

check_basic_teds(d) ==
    IF element_ne_int(Item(d.teds, "version_number"), 2)
    THEN [d EXCEPT !.warned = TRUE]
    ELSE d

end_template(d) == Begin(d, "trailer", EndTd)

\* load_template: the match statement has no default case, so any other id
\* falls through to the constructor's next statement, end_template
load_template(d, template_id) ==
    CASE template_id = 25 -> Begin(d, "selectors", SelectorTd)
      [] template_id = 36 -> Begin(d, "thermocouple", ThermocoupleTd)
      [] OTHER -> end_template(d)

\* the constructor from the return of process(header) to the next process
AfterHeader(d) ==
    LET d1 == check_basic_teds(process_update(d))
    IN  load_template(d1, Item(d1.teds, "template_id").num)

\* a variant that reads a force sensor as an accelerometer (used to test the
\* claims below)
AfterSelectors_force_as_accel(d) ==
    LET d1 == process_update(d)
        ef == Item(d1.teds, "extended_functionality").num
    IN  IF ef = 0 THEN Begin(d1, "no_ext", NoExtTd) ELSE Begin(d1, "ext", ExtTd)

\* accelerometer_force_template after its first process call
AfterSelectors(d) ==
    LET d1 == process_update(d)
        af == Item(d1.teds, "acceleration_force").num
        ef == Item(d1.teds, "extended_functionality").num
    IN  CASE af = 0 /\ ef = 0 -> Begin(d1, "no_ext", NoExtTd)
          [] af = 1 /\ ef = 0 -> Raise(d1, "NotImplementedError")
          [] af = 0 /\ ef = 1 -> Begin(d1, "ext", ExtTd)
          [] af = 1 /\ ef = 1 -> Raise(d1, "NotImplementedError")
          [] OTHER -> Raise(d1, "ValueError")

\* the return of accelerometer_no_ext_template / accelerometer_ext_template
AfterBranch(d) == Begin(process_update(d), "common", CommonTd)

\* a variant that reads the transfer function block whatever the flag (used
\* to test the claims below)
AfterCommon_always_transfer(d) ==
    Begin(process_update(d), "transfer", TransferTd)

AfterCommon(d) ==
    LET d1 == process_update(d)
    IN  IF Item(d1.teds, "transfer_function").num = 1
        THEN Begin(d1, "transfer", TransferTd)
        ELSE Begin(d1, "ref", RefTd)

\* the return of transfer_function_template
AfterTransfer(d) == Begin(process_update(d), "ref", RefTd)

\* the return of accelerometer_force_template and of load_template
AfterRef(d) == end_template(process_update(d))

\* the return of thermocouple_template and of load_template
AfterThermocouple(d) == end_template(process_update(d))

\* the return of end_template and of the constructor
AfterTrailer(d) == [process_update(d) EXCEPT !.pc = "done"]

GroupDone(d, group) ==
    d.pc = "process" /\ d.group = group /\ d.idx > Len(d.td)

----------------------------------------------------------------------------
(* to_bits of every class, and write_teds_to_file.                         *)
(*                                                                         *)
(* ConResTedsElement.to_bits and ConRelResTedsElement.to_bits hand the     *)
(* float quotient itself to Bits(uint=...).  The quotient is the raw code  *)
(* in exact arithmetic; in doubles it may fall just below it (for          *)
(* instance (-6.3 + 3 * 0.1 + 6.3) / 0.1 < 3).  What bitstring makes of a  *)
(* float depends on its release: it raises TypeError, or it takes int() of *)
(* it, which truncates.  Every such outcome is kept.                       *)
(***************************************************************************)

RECURSIVE bin_digits(_)
\* bin(v)[2:]
bin_digits(v) == IF v < 2 THEN <<v>> ELSE bin_digits(v \div 2) \o <<v % 2>>

zfill(digits, width) ==
    IF Len(digits) >= width THEN digits ELSE Zeros(width - Len(digits)) \o digits

LastN(digits, n) == SubSeq(digits, Len(digits) - n + 1, Len(digits))

RECURSIVE convert_nidaqmax_list_unreversed(_)
\* a variant that forgets the reversal (used to test the claims below)
convert_nidaqmax_list_unreversed(teds_data) ==
    IF teds_data = <<>> THEN <<>>
    ELSE zero_pad_bitstream(bin_digits(Head(teds_data)))
         \o convert_nidaqmax_list_unreversed(Tail(teds_data))

RECURSIVE convert_nidaqmax_list_to_bitstream(_)
\* convert_nidaqmax_list_to_bitstream: BitStream(bin(item)) is the binary
\* numeral of the item without leading zeros; it is reversed, then padded
convert_nidaqmax_list_to_bitstream(teds_data) ==
    IF teds_data = <<>> THEN <<>>
    ELSE zero_pad_bitstream(reverse_bitstream(bin_digits(Head(teds_data))))
         \o convert_nidaqmax_list_to_bitstream(Tail(teds_data))

RECURSIVE Chr5_to_bits_unreversed(_)
\* a variant that forgets the reversal (used to test the claims below)
Chr5_to_bits_unreversed(text) ==
    IF text = <<>> THEN <<>>
    ELSE LastN(zfill(bin_digits(Head(text)), 5), 5)
         \o Chr5_to_bits_unreversed(Tail(text))

RECURSIVE Chr5_to_bits(_)
Chr5_to_bits(text) ==
    IF text = <<>> THEN <<>>
    ELSE reverse_bitstream(LastN(zfill(bin_digits(Head(text)), 5), 5))
         \o Chr5_to_bits(Tail(text))

RECURSIVE Ascii_to_bits_bytes(_)
\* a variant that writes whole bytes (used to test the claims below)
Ascii_to_bits_bytes(text) ==
    IF text = <<>> THEN <<>>
    ELSE reverse_bitstream(zfill(bin_digits(Head(text)), 8))
         \o Ascii_to_bits_bytes(Tail(text))

RECURSIVE Ascii_to_bits(_)
Ascii_to_bits(text) ==
    IF text = <<>> THEN <<>>
    ELSE reverse_bitstream(zfill(bin_digits(Head(text)), 7))
         \o Ascii_to_bits(Tail(text))

Packed(bits) == [ok |-> TRUE, err |-> "", bits |-> bits]
Raised(err) == [ok |-> FALSE, err |-> err, bits |-> <<>>]

\* Bits(uint=int_val, length=len) of an int, reversed
PackInt(len, int_val) ==
    IF uint_fits(int_val, len) THEN Packed(to_bitstream(len, int_val))
    ELSE Raised("CreationError")

\* Bits(uint=q, length=len) of a float q whose int() is one of truncs
PackFloat(len, truncs) ==
    {Raised("TypeError")} \cup {PackInt(len, t) : t \in truncs}

\* the doubles compute (val - start) / step exactly when start and step are
\* ints, or start is an int and step a multiple of one half
ConRes_exact(e) ==
    /\ IsIntLit(e.start)
    /\ (IsIntLit(e.step) \/ (2 * e.step[1]) % e.step[2] = 0)

\* int() of the float quotient of an element whose exact quotient is raw
FloatTruncs(raw, exact) ==
    IF exact \/ raw = 0 THEN {raw} ELSE {raw - 1, raw}

\* The raw codes of the inexact ConRes elements of the templates whose double
\* quotient ((start + raw * step) - start) / step falls below raw, as IEEE 754
\* double arithmetic gives them (for instance ((-6.3 + 1 * 0.1) + 6.3) / 0.1 is
\* 0.9999999999999964); the quotient of every other code of these elements is
\* raw or just above it.
ConRes_known(e) ==
    \/ e.start = <<-63, 10>> /\ e.step = <<1, 10>>
    \/ e.start = <<-8, 10>> /\ e.step = <<25, 1000>>
    \/ e.start = <<-25, 1000>> /\ e.step = <<1, 1000>>

ConRes_below(e) ==
    CASE e.start = <<-63, 10>> /\ e.step = <<1, 10>> ->
             {1, 3, 8, 13, 18, 43, 81, 86, 91}
      [] e.start = <<-8, 10>> /\ e.step = <<25, 1000>> -> {3, 4, 8, 9, 43}
      [] e.start = <<-25, 1000>> /\ e.step = <<1, 1000>> ->
             {3, 6, 7} \cup (105..119)
      [] OTHER -> {}

\* int() of the float quotient of a ConRes element
ConRes_truncs(e, raw) ==
    IF ConRes_exact(e) THEN {raw}
    ELSE IF ConRes_known(e)
         THEN {IF raw \in ConRes_below(e) THEN raw - 1 ELSE raw}
         ELSE FloatTruncs(raw, FALSE)

\* a variant with one dict for the whole class (used to test the claims below)
teds_ref_class_level(i) == 1

\* the dict object self.teds of the i-th StandardTeds names: __init__ makes a
\* new dict for every object
teds_ref(i) == i

\* a variant without the check (used to test the claims below)
val_is_none_unchecked(e) == FALSE

\* BasicTedsElement.to_bits: self.val is None
val_is_none(e) == ~e.isset

\* what the element hands to Bits(uint=...): an int, or the float of a true
\* division; the string classes build their bits from a binary string
PackerArg(e) ==
    CASE e.kind \in {"ConRes", "ConRelRes"} -> "float"
      [] e.kind \in {"UnInt", "Date"} -> "int"
      [] OTHER -> "none"

\* the outcomes of e.to_bits()
to_bits(e) ==
    IF e.kind = "Constant" THEN {Packed(<<>>)}
    ELSE IF val_is_none(e) THEN {Raised("ValueError")}
    ELSE CASE e.kind = "UnInt" -> {PackInt(e.len, e.num)}
           [] e.kind = "Date" -> {PackInt(e.len, e.num - EpochOrdinal)}
           [] e.kind = "Chr5" -> {Packed(Chr5_to_bits(e.text))}
           [] e.kind = "Ascii" -> {Packed(Ascii_to_bits(e.text))}
           [] e.kind = "ConRes" ->
                LET raw == (e.num - e.start[1] * e.step[2])
                               \div (e.step[1] * e.start[2])
                IN  PackFloat(e.len, ConRes_truncs(e, raw))
           [] e.kind = "ConRelRes" ->
                \* val / start of two ints too far apart for a double
                IF IsIntLit(e.start) /\ IsIntLit(e.step) /\ e.num > MaxPow3
                THEN {Raised("OverflowError")}
                ELSE PackFloat(e.len, FloatTruncs(e.num, FALSE))
           [] OTHER -> {Packed(<<>>)}

\* bitstream = BitStream(cls.ni_preamble)
WriteStart == ni_preamble

\* the loop of write_teds_to_file over the first n items: every bitstream it can
\* have built, or the exception that ended it
RECURSIVE WriteLoop(_, _)
WriteLoop(teds, n) ==
    IF n = 0 THEN {Packed(WriteStart)}
    ELSE LET e == teds[n]
         IN  UNION { IF ~prev.ok \/ e.kind = "Constant" THEN {prev}
                     ELSE { IF r.ok THEN Packed(prev.bits \o r.bits) ELSE r
                            : r \in to_bits(e) }
                     : prev \in WriteLoop(teds, n - 1) }

\* write_teds_to_file: the file is opened and written, one byte per bit, only
\* after the loop has ended without an exception
write_teds_to_file(teds) ==
    { IF r.ok THEN [state |-> "written", err |-> "", bits |-> r.bits]
      ELSE [state |-> "failed", err |-> r.err, bits |-> <<>>]
      : r \in WriteLoop(teds, Len(teds)) }

NoFile == [state |-> "none", err |-> "", bits |-> <<>>]

----------------------------------------------------------------------------
(* The streams the decoder is run on: a prefix, the fields of one template *)
(* layout each holding a raw value, a user_data tail, and a cut.           *)

TemplateIds == {25, 36, 99}

FillValue(fill, n) ==
    CASE fill = 0 -> 0
      [] fill = 1 -> Pow2(n) - 1
      [] OTHER -> (fill * 2731) % Pow2(n)

RECURSIVE PackFields(_)
\* the stream of a sequence of <<width, raw value>>, each least significant
\* bit first
PackFields(fields) ==
    IF fields = <<>> THEN <<>>
    ELSE [i \in 1..Head(fields)[1] |-> (Head(fields)[2] \div Pow2(i - 1)) % 2]
         \o PackFields(Tail(fields))

Filled(widths, fill) == [i \in 1..Len(widths) |-> <<widths[i], FillValue(fill, widths[i])>>]

BodyFields(p) ==
    CASE p.tid = 25 ->
           << <<1, p.af>>, <<1, p.ef>> >>
           \o Filled(IF p.ef = 0 THEN <<16, 8>> ELSE <<2, 1, 16, 16, 8, 8>>, p.fill)
           \o Filled(<<2, 6, 1>>, p.fill) \o << <<1, p.tf>> >>
           \o Filled(IF p.tf = 1 THEN <<7, 9, 9, 7, 6>> ELSE <<>>, p.fill)
           \o Filled(<<8, 5>>, p.fill)
      [] p.tid = 36 -> Filled(<<11, 11, 7, 7, 4, 1, 12, 6>>, p.fill)
      [] OTHER -> <<>>

StreamFields(p) ==
    Filled(<<14, 15, 5>>, p.fill) \o << <<6, p.ver>> >>
    \o Filled(<<24, 2>>, p.fill) \o << <<8, p.tid>> >>
    \o BodyFields(p)
    \o Filled(<<16, 15, 12, 11, 2, 1>>, p.fill)

BadPreamble == [ni_preamble EXCEPT ![40] = 1 - ni_preamble[40]]

Prefix(p) ==
    CASE p.prefix = "ni" -> ni_preamble
      [] p.prefix = "bad" -> BadPreamble
      [] OTHER -> <<>>

UserBits(p) == [i \in 1..p.ulen |-> (i + p.fill) % 2]

Stream(p) ==
    LET whole == Prefix(p) \o PackFields(StreamFields(p)) \o UserBits(p)
        keep == Len(whole) - p.cut * CutStride
    IN  SubSeq(whole, 1, IF keep < 0 THEN 0 ELSE keep)

Inputs ==
    { p \in [prefix : {"none", "ni", "bad"}, tid : TemplateIds,
             af : 0..1, ef : 0..1, tf : 0..1, ver : 1..2, fill : 0..MaxFill,
             ulen : {0, MaxUserBits - 1, MaxUserBits}, cut : 0..MaxCut] :
        \* the selector bits exist in the accelerometer/force layout only
        /\ p.tid # 25 => p.af = 0 /\ p.ef = 0 /\ p.tf = 0
        \* cut streams are generated from one filling
        /\ p.cut > 0 => p.fill = 1 /\ p.ver = 2 }

\* no constructor is running
IdlePair == [d |-> <<>>, heap |-> <<>>, n |-> <<>>]

\* no SDLMAEMA object has been made
IdleEma == [pc |-> "idle", measurements |-> <<>>, hist |-> <<>>, names |-> <<>>]

IdleUn ==
    [pc |-> "idle", orig |-> 0, bits |-> <<>>, e |-> UnIntTedsElement("field", 0)]

----------------------------------------------------------------------------
(* Spec: one decode, then write_to_file on the object it returned *)

Init ==
    /\ \E p \in Inputs, has_preamble \in BOOLEAN :
           dec = NewDecoder(Stream(p), has_preamble)
    /\ file = NoFile
    /\ pair = IdlePair
    /\ ema = IdleEma
    /\ un = IdleUn

DoConstruct ==
    /\ dec.pc = "start"
    /\ dec' = Construct(dec)
    /\ UNCHANGED <<file, un, pair, ema>>

DoProcessField ==
    /\ dec.pc = "process" /\ dec.idx <= Len(dec.td)
    /\ dec' = ProcessField(dec)
    /\ UNCHANGED <<file, un, pair, ema>>

DoAfterHeader ==
    /\ GroupDone(dec, "header")
    /\ dec' = AfterHeader(dec)
    /\ UNCHANGED <<file, un, pair, ema>>

DoAfterSelectors ==
    /\ GroupDone(dec, "selectors")
    /\ dec' = AfterSelectors(dec)
    /\ UNCHANGED <<file, un, pair, ema>>

DoAfterBranch ==
    /\ GroupDone(dec, "no_ext") \/ GroupDone(dec, "ext")
    /\ dec' = AfterBranch(dec)
    /\ UNCHANGED <<file, un, pair, ema>>

DoAfterCommon ==
    /\ GroupDone(dec, "common")
    /\ dec' = AfterCommon(dec)
    /\ UNCHANGED <<file, un, pair, ema>>

DoAfterTransfer ==
    /\ GroupDone(dec, "transfer")
    /\ dec' = AfterTransfer(dec)
    /\ UNCHANGED <<file, un, pair, ema>>

DoAfterRef ==
    /\ GroupDone(dec, "ref")
    /\ dec' = AfterRef(dec)
    /\ UNCHANGED <<file, un, pair, ema>>

DoAfterThermocouple ==
    /\ GroupDone(dec, "thermocouple")
    /\ dec' = AfterThermocouple(dec)
    /\ UNCHANGED <<file, un, pair, ema>>

DoAfterTrailer ==
    /\ GroupDone(dec, "trailer")
    /\ dec' = AfterTrailer(dec)
    /\ UNCHANGED <<file, un, pair, ema>>

\* write_to_file on the constructed object
WriteToFile ==
    /\ dec.pc = "done" /\ file.state = "none"
    /\ file' \in write_teds_to_file(dec.teds)
    /\ UNCHANGED <<dec, un, pair, ema>>

Next ==
    \/ DoConstruct
    \/ DoProcessField
    \/ DoAfterHeader
    \/ DoAfterSelectors
    \/ DoAfterBranch
    \/ DoAfterCommon
    \/ DoAfterTransfer
    \/ DoAfterRef
    \/ DoAfterThermocouple
    \/ DoAfterTrailer
    \/ WriteToFile

Spec == Init /\ [][Next]_vars

----------------------------------------------------------------------------
(* SpecUnInt: one UnIntTedsElement of width 1..MaxLen, either holding a    *)
(* value that is encoded and decoded again, or given a window to decode.   *)

IdleDecoder == [NewDecoder(<<>>, FALSE) EXCEPT !.pc = "idle"]

InitUnInt ==
    /\ dec = IdleDecoder
    /\ file = NoFile
    /\ pair = IdlePair
    /\ ema = IdleEma
    /\ \E len \in 1..MaxLen :
          \/ \E v \in 0..(Pow2(len) - 1) :
                un = [pc |-> "set", orig |-> v, bits |-> <<>>,
                      e |-> [UnIntTedsElement("field", len)
                                EXCEPT !.isset = TRUE, !.num = v]]
          \/ \E w \in [1..len -> {0, 1}] :
                un = [pc |-> "window", orig |-> 0, bits |-> w,
                      e |-> UnIntTedsElement("field", len)]

UnIntToBits ==
    /\ un.pc = "set"
    /\ \E r \in to_bits(un.e) :
          /\ r.ok
          /\ un' = [un EXCEPT !.pc = "encoded", !.bits = r.bits]
    /\ UNCHANGED <<dec, file, pair, ema>>

UnIntFromBits ==
    /\ un.pc \in {"encoded", "window"}
    /\ un' = [un EXCEPT !.pc = IF un.pc = "encoded" THEN "roundtrip" ELSE "decoded",
                        !.e = from_bits([un.e EXCEPT !.isset = FALSE, !.num = 0],
                                        un.bits).e]
    /\ UNCHANGED <<dec, file, pair, ema>>

NextUnInt == UnIntToBits \/ UnIntFromBits

SpecUnInt == InitUnInt /\ [][NextUnInt]_vars

----------------------------------------------------------------------------
(* Vocabulary of the properties *)

RECURSIVE LsbValue(_)
\* the number a window spells with its first bit least significant
LsbValue(b) == IF b = <<>> THEN 0 ELSE Head(b) + 2 * LsbValue(Tail(b))

\* where the header starts
HeaderStart(d) == IF d.has_preamble THEN 40 ELSE 0

HeaderNames ==
    << "manufacturer_id", "model_number", "version_letter", "version_number",
       "serial_number", "start_selector", "template_id" >>

HeaderWidths == << 14, 15, 5, 6, 24, 2, 8 >>

HeaderOffsets == << 0, 14, 29, 34, 40, 64, 66 >>

TrailerNames ==
    << "calibration_date", "calibration_initals", "calibration_period",
       "measurement_location_id", "end_selector", "extended_end_selector",
       "user_data" >>

\* the bits of the stream a logged read covered
Window(d, i) ==
    SubSeq(d.bitstream, d.log[i].pos + 1, d.log[i].pos + d.log[i].len)

\* the template id the stream carries, once the header has been read
StreamTemplateId(d) == LsbValue(Window(d, 7))

Names(teds) == {teds[i].name : i \in 1..Len(teds)}

Returned(d) == d.pc = "done"

\* the decoder is in, or past, the basic accelerometer branch
BasicBranch(d) ==
    /\ Len(d.log) >= 9
    /\ StreamTemplateId(d) = 25
    /\ Window(d, 8) = <<0>>
    /\ Window(d, 9) = <<0>>
    /\ ~(d.pc = "process" /\ d.group = "selectors")

\* the document of a basic accelerometer stream without transfer function
BasicDocument(d) ==
    /\ Returned(d)
    /\ Item(d.teds, "template_id").num = 25
    /\ HasKey(d.teds, "sens_ref")
    /\ Item(d.teds, "transfer_function").num = 0

RECURSIVE EmittedWidth(_)
\* the bits write_teds_to_file appends for the items of a decoded document
EmittedWidth(teds) ==
    IF teds = <<>> THEN 0
    ELSE (CASE Head(teds).kind = "Constant" -> 0
            [] Head(teds).kind = "Ascii" -> 7 * Len(Head(teds).text)
            [] OTHER -> Head(teds).len)
         + EmittedWidth(Tail(teds))

\* header, body of the template family and branch, trailer
CompleteDocument(teds) ==
    /\ \A i \in 1..7 : HeaderNames[i] \in Names(teds) /\ TrailerNames[i] \in Names(teds)
    /\ \/ /\ Item(teds, "template_id").num = 25
          /\ {"acceleration_force", "extended_functionality", "direction",
              "transducer_weight", "sign", "transfer_function", "ref_req",
              "ref_temp"} \subseteq Names(teds)
          /\ \/ {"sens_ref", "tf_hp_s"} \subseteq Names(teds)
             \/ {"sens_ref_01", "sens_ref_10", "tf_hp_s_01", "tf_hp_s_10"}
                    \subseteq Names(teds)
       \/ /\ Item(teds, "template_id").num = 36
          /\ {"minimum_temperature", "maximum_temperature",
              "thermocouple_type", "thermocouple_resistance",
              "sensor_response_time"} \subseteq Names(teds)

----------------------------------------------------------------------------
(* Properties *)

\* C1: decoding a valid basic accelerometer stream (template 25, no force, no
\* extension, no transfer function) and writing the document back reproduces
\* the stream bit for bit.
C1_Idempotent ==
    (BasicDocument(dec) /\ file.state # "none")
        => (file.state = "written" /\ file.bits = dec.bitstream)

\* C2: an UnsignedInt value v < 2^len encoded by to_bits occupies exactly len
\* bits, and from_bits of that window gives v back.
C2_UnIntRoundTrip ==
    /\ un.pc \in {"encoded", "roundtrip"} => Len(un.bits) = un.e.len
    /\ un.pc = "roundtrip" => un.e.isset /\ un.e.num = un.orig

C2_Witness ==
    un.pc = "roundtrip" /\ un.e.len = 9 /\ un.orig = 300 /\ un.e.num = 300

\* C3: a field is least-significant-bit first: from_bits of the window
\* b0..b(n-1) is the sum of b_i * 2^i, whatever padding to the byte boundary
\* was added, and to_bits of v emits bit i of v at place i (5 in 4 bits is
\* 1010, and 1010 decodes to 5).
C3_LsbFirst ==
    /\ un.pc \in {"decoded", "roundtrip"} => un.e.num = LsbValue(un.bits)
    /\ un.pc = "encoded" =>
          \A i \in 1..un.e.len : un.bits[i] = (un.orig \div Pow2(i - 1)) % 2
    /\ (un.pc = "encoded" /\ un.e.len = 4 /\ un.orig = 5) => un.bits = <<1, 0, 1, 0>>
    /\ (un.pc = "decoded" /\ un.bits = <<1, 0, 1, 0>>) => un.e.num = 5

C3_Witness ==
    un.pc = "decoded" /\ un.bits = <<1, 0, 1, 0>> /\ un.e.num = 5

\* C4: a decoded template id other than 25 and 36 fails the decode, with the
\* cursor at the end of the 74-bit header and no document returned.
C4_UnknownTemplateRejected ==
    (HasKey(dec.teds, "template_id")
        /\ Item(dec.teds, "template_id").num \notin {25, 36})
    => (dec.pc = "failed" /\ dec.pos = HeaderStart(dec) + 74)

\* C5: with has_preamble set, a stream whose first 40 bits differ from the
\* preamble constant fails the decode before any header field is read and
\* yields no document; a stream that starts with the constant has it stripped
\* and its header read from bit 40.
C5_PreambleValidated ==
    (dec.has_preamble /\ dec.pc # "start" /\ Len(dec.bitstream) >= 40) =>
        IF SubSeq(dec.bitstream, 1, 40) # ni_preamble
        THEN dec.pc = "failed" /\ dec.err = "ValueError"
             /\ dec.log = <<>> /\ dec.teds = <<>>
        ELSE /\ dec.err # "ValueError"
             /\ dec.log = <<>> => dec.pos = 40
             /\ dec.log # <<>> =>
                    dec.log[1] = [name |-> "manufacturer_id", len |-> 14, pos |-> 40]
             /\ HasKey(dec.teds, "manufacturer_id") =>
                    Item(dec.teds, "manufacturer_id").num
                        = LsbValue(SubSeq(dec.bitstream, 41, 54))

C5_Witness ==
    /\ dec.has_preamble /\ dec.pc = "failed" /\ dec.err = "ValueError"
    /\ Len(dec.bitstream) >= 40
    /\ SubSeq(dec.bitstream, 1, 40) = BadPreamble
    /\ dec.log = <<>>

\* C6: without has_preamble nothing is read before the header, manufacturer_id
\* is bits 0..13 of the stream, and a stream that happens to start with the
\* preamble constant is decoded like any other: the decode never fails on the
\* preamble and never skips it.
C6_NoPreambleDetection ==
    ~dec.has_preamble =>
        /\ dec.err # "ValueError"
        /\ dec.log = <<>> => dec.pos = 0
        /\ dec.log # <<>> =>
               dec.log[1] = [name |-> "manufacturer_id", len |-> 14, pos |-> 0]
        /\ HasKey(dec.teds, "manufacturer_id") =>
               Item(dec.teds, "manufacturer_id").num
                   = LsbValue(SubSeq(dec.bitstream, 1, 14))

C6_Witness ==
    /\ ~dec.has_preamble
    /\ Len(dec.bitstream) >= 40 /\ SubSeq(dec.bitstream, 1, 40) = ni_preamble
    /\ HasKey(dec.teds, "manufacturer_id")
    /\ Item(dec.teds, "manufacturer_id").num = 13915

\* C7: the written output starts with the preamble constant exactly when the
\* document was decoded with has_preamble: without it the output is the
\* fields' bits alone, with it one copy of the constant and then the fields.
C7_PreambleOnlyIfDecoded ==
    file.state = "written" =>
        /\ Len(file.bits)
               = (IF dec.has_preamble THEN 40 ELSE 0) + EmittedWidth(dec.teds)
        /\ dec.has_preamble => SubSeq(file.bits, 1, 40) = ni_preamble

\* C8: a decode returns a document with header, template body and trailer, or
\* fails and returns none; never a document of header and trailer alone.
C8_NoPartialDocument ==
    Returned(dec) => CompleteDocument(dec.teds)

\* C9: the first seven reads of every decode are the header fields
\* manufacturer_id(14), model_number(15), version_letter(5),
\* version_number(6), serial_number(24), start_selector(2), template_id(8),
\* which end 74 bits past the header start; what is read next is decided by
\* the template id of those bits alone.
C9_HeaderFirst ==
    /\ \A i \in 1..7 :
          i <= Len(dec.log) =>
              dec.log[i] = [name |-> HeaderNames[i], len |-> HeaderWidths[i],
                            pos |-> HeaderStart(dec) + HeaderOffsets[i]]
    /\ (dec.pc \in {"process", "done"} /\ Len(dec.log) = 7) =>
          dec.pos = HeaderStart(dec) + 74
    /\ Len(dec.log) >= 8 =>
          /\ dec.log[8].pos = HeaderStart(dec) + 74
          /\ dec.log[8].name =
                CASE StreamTemplateId(dec) = 25 -> "acceleration_force"
                  [] StreamTemplateId(dec) = 36 -> "elec_sig_type"
                  [] OTHER -> "calibration_date"

C9_Witness ==
    /\ Returned(dec) /\ dec.has_preamble
    /\ Item(dec.teds, "template_id").num = 36
    /\ dec.log[8].pos = 114

\* C10: in the basic accelerometer branch (template 25, acceleration_force 0,
\* extended_functionality 0) the branch body is sens_ref (16 bits, exponential,
\* start 5e-7, step 0.00015) then tf_hp_s (8 bits, exponential, start 0.005,
\* step 0.03): 24 bits between the selector bits and direction.
C10_BasicBranch ==
    BasicBranch(dec) =>
        /\ Len(dec.log) >= 10 =>
              dec.log[10] = [name |-> "sens_ref", len |-> 16,
                             pos |-> dec.log[9].pos + 1]
        /\ Len(dec.log) >= 11 =>
              dec.log[11] = [name |-> "tf_hp_s", len |-> 8,
                             pos |-> dec.log[9].pos + 17]
        /\ Len(dec.log) >= 12 =>
              /\ dec.log[12].name = "direction"
              /\ dec.log[12].pos = dec.log[9].pos + 1 + 24
        /\ HasKey(dec.teds, "direction") =>
              /\ HasKey(dec.teds, "sens_ref") /\ HasKey(dec.teds, "tf_hp_s")
              /\ LET s == Item(dec.teds, "sens_ref")
                     h == Item(dec.teds, "tf_hp_s")
                 IN  /\ s.kind = "ConRelRes" /\ s.len = 16
                     /\ s.start = <<5, 10000000>> /\ s.step = <<15, 100000>>
                     /\ h.kind = "ConRelRes" /\ h.len = 8
                     /\ h.start = <<5, 1000>> /\ h.step = <<3, 100>>
                     /\ s.num = LsbValue(Window(dec, 10))
                     /\ h.num = LsbValue(Window(dec, 11))

C10_Witness ==
    /\ Returned(dec) /\ BasicBranch(dec)
    /\ Item(dec.teds, "sens_ref").num = 65535
    /\ dec.log[12].pos = 100

\* where the reads of a decode stand: the place of a field in the log
Logged(d, name) == \E i \in 1..Len(d.log) : d.log[i].name = name

LogIndex(d, name) == CHOOSE i \in 1..Len(d.log) : d.log[i].name = name

\* C11: with template 25 and acceleration_force = 1 the decode fails with the
\* unsupported-branch error right after the two selector bits: no further
\* field is read, no document is returned; the generic invalid-template error
\* of the selector dispatch is never raised.
C11_ForceRejected ==
    /\ (Len(dec.log) >= 9 /\ StreamTemplateId(dec) = 25 /\ Window(dec, 8) = <<1>>) =>
          /\ Len(dec.log) = 9
          /\ dec.log[9] = [name |-> "extended_functionality", len |-> 1,
                           pos |-> HeaderStart(dec) + 75]
          /\ dec.pos = HeaderStart(dec) + 76
          /\ \/ dec.pc = "process" /\ dec.group = "selectors" /\ dec.idx = 3
             \/ dec.pc = "failed" /\ dec.err = "NotImplementedError"
                /\ ~HasKey(dec.teds, "direction")
    /\ dec.err = "ValueError" => dec.log = <<>>

C11_Witness ==
    /\ dec.pc = "failed" /\ dec.err = "NotImplementedError"
    /\ Window(dec, 8) = <<1>> /\ Window(dec, 9) = <<1>>

TransferNames == << "tf_sp", "tf_kpr", "tf_kpq", "tf_sl", "temp_coef" >>

TransferWidths == << 7, 9, 9, 7, 6 >>

TransferOffsets == << 0, 7, 16, 25, 32 >>

\* C12: the five fields tf_sp(7), tf_kpr(9), tf_kpq(9), tf_sl(7), temp_coef(6)
\* are read (38 bits) and present in the document exactly when the decoded
\* transfer_function flag is 1; ref_req(8) and ref_temp(5) follow in that
\* order, right after the flag (flag 0) or right after temp_coef (flag 1).
C12_TransferBlock ==
    Logged(dec, "transfer_function") =>
        LET j == LogIndex(dec, "transfer_function")
            flag == Window(dec, j)[1]
            after == dec.log[j].pos + 1
            skip == IF flag = 1 THEN 5 ELSE 0
            bits == IF flag = 1 THEN 38 ELSE 0
        IN  /\ flag = 1 =>
                  \A i \in 1..5 :
                      Len(dec.log) >= j + i =>
                          dec.log[j + i] = [name |-> TransferNames[i],
                                            len |-> TransferWidths[i],
                                            pos |-> after + TransferOffsets[i]]
            /\ Len(dec.log) >= j + skip + 1 =>
                  dec.log[j + skip + 1] =
                      [name |-> "ref_req", len |-> 8, pos |-> after + bits]
            /\ Len(dec.log) >= j + skip + 2 =>
                  dec.log[j + skip + 2] =
                      [name |-> "ref_temp", len |-> 5, pos |-> after + bits + 8]
            /\ Returned(dec) =>
                  /\ {"ref_req", "ref_temp"} \subseteq Names(dec.teds)
                  /\ \A i \in 1..5 :
                        (TransferNames[i] \in Names(dec.teds)) <=> (flag = 1)
                  /\ Item(dec.teds, "transfer_function").num = flag

C12_Witness ==
    /\ Returned(dec)
    /\ Logged(dec, "transfer_function")
    /\ Item(dec.teds, "transfer_function").num = 1
    /\ HasKey(dec.teds, "temp_coef")
    /\ dec.log[LogIndex(dec, "ref_req")].pos
           = dec.log[LogIndex(dec, "transfer_function")].pos + 39

TrailerWidths == << 16, 15, 12, 11, 2, 1 >>

TrailerOffsets == << 0, 16, 31, 43, 54, 56, 57 >>

\* C13: every successful decode, of either template family, ends with the
\* reads calibration_date(16), calibration_initals(15),
\* calibration_period(12), measurement_location_id(11), end_selector(2),
\* extended_end_selector(1), user_data(rest), in this order; once a trailer
\* field has been read, only trailer fields are read.
C13_TrailerLast ==
    /\ \A i \in 1..Len(dec.log) :
          dec.log[i].name = "calibration_date" =>
              /\ Len(dec.log) <= i + 6
              /\ \A k \in 0..6 :
                    i + k <= Len(dec.log) =>
                        /\ dec.log[i + k].name = TrailerNames[k + 1]
                        /\ dec.log[i + k].pos = dec.log[i].pos + TrailerOffsets[k + 1]
                        /\ dec.log[i + k].len =
                              IF k < 6 THEN TrailerWidths[k + 1]
                              ELSE Len(dec.bitstream) - dec.log[i + k].pos
    /\ \A i \in 1..Len(dec.log) :
          dec.log[i].name \in {TrailerNames[k] : k \in 2..7} =>
              Logged(dec, "calibration_date") /\ LogIndex(dec, "calibration_date") < i
    /\ Returned(dec) =>
          /\ Len(dec.log) >= 14
          /\ dec.log[Len(dec.log) - 6].name = "calibration_date"
          /\ dec.pos = Len(dec.bitstream)

C13_Witness ==
    /\ Returned(dec)
    /\ Item(dec.teds, "template_id").num = 25
    /\ dec.log[Len(dec.log)].name = "user_data"
    /\ dec.log[Len(dec.log)].len > 0

\* C14: when the stream ends right after extended_end_selector, user_data is
\* read as zero bits, decodes to the empty string, and the decode succeeds.
C14_EmptyUserData ==
    (Logged(dec, "extended_end_selector")
        /\ dec.log[LogIndex(dec, "extended_end_selector")].pos + 1
               = Len(dec.bitstream)) =>
        LET j == LogIndex(dec, "extended_end_selector")
        IN  /\ dec.pc # "failed"
            /\ Len(dec.log) > j =>
                  dec.log[j + 1] = [name |-> "user_data", len |-> 0,
                                    pos |-> Len(dec.bitstream)]
            /\ Returned(dec) =>
                  /\ Item(dec.teds, "user_data").isset
                  /\ Item(dec.teds, "user_data").text = <<>>

C14_Witness ==
    /\ Returned(dec)
    /\ dec.log[Len(dec.log)] = [name |-> "user_data", len |-> 0,
                                pos |-> Len(dec.bitstream)]
    /\ Item(dec.teds, "user_data").text = <<>>

\* C15: the legacy-format warning is reported exactly when the decoded
\* version_number differs from 2, and never when it is 2; the decode goes on
\* either way.
C15_LegacyWarning ==
    HasKey(dec.teds, "version_number") =>
        (dec.warned <=> (Item(dec.teds, "version_number").num # 2))

----------------------------------------------------------------------------
(* SpecElem: one element of a string or scaled class on its own: from_bits *)
(* of a window, to_bits of the value, from_bits of the bits written.       *)
(* A string element may also start from a value set by the caller.         *)

AllTds ==
    ThermocoupleTd \o CommonTd \o RefTd \o NoExtTd \o ExtTd \o TransferTd

\* the scaled elements of the templates, one per width and scaling
ScaledElements ==
    { [AllTds[i] EXCEPT !.name = "field"] :
        i \in {j \in 1..Len(AllTds) : AllTds[j].kind \in {"ConRes", "ConRelRes"}} }

Codes(len) == {k \in (0..MaxCode) \cup {Pow2(len) - 1} : k < Pow2(len)}

CodeWindow(len, k) == [i \in 1..len |-> (k \div Pow2(i - 1)) % 2]

AsciiSample == {0, 1, 65, 127}

ElemCases ==
    UNION { { [mode |-> "window", e |-> Chr5TedsElement("field", 5 * g), window |-> w] :
        w \in [1..(5 * g) -> {0, 1}] } : g \in 1..MaxGroups }
    \cup
    { [mode |-> "window", e |-> AsciiTedsElement("field", -1), window |-> w] :
        w \in UNION {[1..n -> {0, 1}] : n \in 0..MaxAsciiBits} }
    \cup
    { [mode |-> "value",
       e |-> [AsciiTedsElement("field", -1) EXCEPT !.text = t], window |-> <<>>] :
        t \in UNION {[1..n -> AsciiSample] : n \in 0..2} }
    \cup
    UNION { { [mode |-> "window", e |-> e, window |-> CodeWindow(e.len, k)] :
                k \in Codes(e.len) } : e \in ScaledElements }

\* a new element of the same class and parameters
Fresh(e) ==
    [e EXCEPT !.isset = (e.kind \in {"Chr5", "Ascii", "Constant"}),
              !.num = 0, !.text = <<>>]

InitElem ==
    /\ dec = IdleDecoder
    /\ file = NoFile
    /\ pair = IdlePair
    /\ ema = IdleEma
    /\ \E c \in ElemCases :
          /\ un = [pc |-> IF c.mode = "window" THEN "window" ELSE "decoded",
                   mode |-> c.mode, e |-> c.e, window |-> c.window,
                   bits |-> <<>>, err |-> "", arg |-> "none", e2 |-> Fresh(c.e)]

ElemFromBits ==
    /\ un.pc = "window"
    /\ LET r == from_bits(un.e, un.window)
       IN  un' = IF r.ok THEN [un EXCEPT !.pc = "decoded", !.e = r.e]
                 ELSE [un EXCEPT !.pc = "decode_failed", !.err = r.err]
    /\ UNCHANGED <<dec, file, pair, ema>>

ElemToBits ==
    /\ un.pc = "decoded"
    /\ \E r \in to_bits(un.e) :
          un' = IF r.ok
                THEN [un EXCEPT !.pc = "encoded", !.bits = r.bits,
                                !.arg = PackerArg(un.e)]
                ELSE [un EXCEPT !.pc = "encode_failed", !.err = r.err,
                                !.arg = PackerArg(un.e)]
    /\ UNCHANGED <<dec, file, pair, ema>>

ElemFromBitsAgain ==
    /\ un.pc = "encoded"
    /\ LET r == from_bits(Fresh(un.e), un.bits)
       IN  un' = IF r.ok THEN [un EXCEPT !.pc = "redecoded", !.e2 = r.e]
                 ELSE [un EXCEPT !.pc = "decode_failed", !.err = r.err]
    /\ UNCHANGED <<dec, file, pair, ema>>

NextElem == ElemFromBits \/ ElemToBits \/ ElemFromBitsAgain

SpecElem == InitElem /\ [][NextElem]_vars

Abs(x) == IF x < 0 THEN -x ELSE x

\* C16: a ConstantLinear element holding the grid value start + k * step
\* encodes without error to the len-bit code k, and that code decodes to a
\* value within step / 2 of the one encoded.
C16_LinearRoundTrip ==
    (un.e.kind = "ConRes" /\ un.pc \in {"encoded", "encode_failed", "redecoded"}) =>
        /\ un.pc # "encode_failed"
        /\ Len(un.bits) = un.e.len
        /\ LsbValue(un.bits) = LsbValue(un.window)
        /\ un.pc = "redecoded" =>
              2 * Abs(un.e2.num - un.e.num) <= un.e.step[1] * un.e.start[2]

\* C17: to_bits of a ConstantLinear or ConstantExponential element rounds the
\* real-valued inverse to the nearest integer code before packing: what
\* reaches the bit packer is an integer, the code of the value held.
C17_RoundedBeforePacking ==
    (un.e.kind \in {"ConRes", "ConRelRes"} /\ un.pc \in {"encoded", "encode_failed"}) =>
        /\ un.arg = "int"
        /\ un.err # "TypeError"
        /\ un.pc = "encoded" => LsbValue(un.bits) = LsbValue(un.window)

\* C18: every 5-bit group g, least significant bit first, decodes to the
\* character 0x60 + g (1 is 'a', 0 the backtick); to_bits emits 5 bits per
\* character, the window decoded, and they decode to the same characters.
C18_Chr5RoundTrip ==
    un.e.kind = "Chr5" =>
        /\ un.pc # "decode_failed"
        /\ un.pc # "window" =>
              /\ Len(un.e.text) * 5 = Len(un.window)
              /\ \A g \in 1..Len(un.e.text) :
                    un.e.text[g] = 96 + LsbValue(SubSeq(un.window, 5 * g - 4, 5 * g))
        /\ (un.pc # "window" /\ un.window = <<1, 0, 0, 0, 0>>) => un.e.text = <<97>>
        /\ (un.pc # "window" /\ un.window = <<0, 0, 0, 0, 0>>) => un.e.text = <<96>>
        /\ un.pc \in {"encoded", "redecoded"} =>
              /\ Len(un.bits) = 5 * Len(un.e.text)
              /\ un.bits = un.window
        /\ un.pc = "redecoded" => un.e2.text = un.e.text

C18_Witness ==
    /\ un.e.kind = "Chr5" /\ un.pc = "redecoded"
    /\ un.window = <<1, 0, 0, 0, 0, 1, 1, 1, 1, 1>>
    /\ un.e.text = <<97, 127>>
    /\ un.bits = un.window

\* C19 as claimed: re-encoding the string decoded from any window given to an
\* Ascii element, of any length, reproduces the window bit for bit.
C19_AsciiBitExact ==
    (un.e.kind = "Ascii" /\ un.mode = "window" /\ un.pc \in {"encoded", "redecoded"})
        => un.bits = un.window

\* C19 as amended: re-encoding the string decoded from a window reproduces
\* its whole 7-bit groups, the first 7 * (n div 7) of its n bits (a tail of
\* fewer than 7 bits is neither decoded nor written back), and every string
\* of 7-bit characters encodes to 7 bits a character that decode to it.
C19_AsciiWholeGroups ==
    un.e.kind = "Ascii" =>
        /\ un.pc \notin {"decode_failed", "encode_failed"}
        /\ (un.mode = "window" /\ un.pc \in {"encoded", "redecoded"}) =>
              un.bits = SubSeq(un.window, 1, 7 * (Len(un.window) \div 7))
        /\ un.pc \in {"encoded", "redecoded"} => Len(un.bits) = 7 * Len(un.e.text)
        /\ un.pc = "redecoded" => un.e2.text = un.e.text

C19_Witness ==
    /\ un.e.kind = "Ascii" /\ un.mode = "window" /\ un.pc = "redecoded"
    /\ un.window = <<1, 0, 0, 0, 0, 0, 1, 1, 0>>
    /\ un.e.text = <<65>>
    /\ un.bits = <<1, 0, 0, 0, 0, 0, 1>>

----------------------------------------------------------------------------
(* SpecWrite: a caller builds a document from the template elements, sets  *)
(* their values, possibly leaving some unset, and calls write_teds_to_file. *)

CallerDocs ==
    { HeaderTd \o ThermocoupleTd \o EndTd,
      HeaderTd \o SelectorTd \o NoExtTd \o CommonTd \o RefTd \o EndTd,
      HeaderTd \o SelectorTd \o ExtTd \o CommonTd \o TransferTd \o RefTd \o EndTd }

\* element.val = the value of raw code k (element.from_bits of its window)
SetByCode(e, k) ==
    IF e.kind = "Constant" THEN e
    ELSE LET n == IF e.len < 0 THEN 7 ELSE e.len
         IN  from_bits(e, CodeWindow(n, k % Pow2(n))).e

UnsetFields(teds) ==
    {i \in 1..Len(teds) :
        teds[i].kind \in {"UnInt", "Date", "ConRes", "ConRelRes"} /\ ~teds[i].isset}

RECURSIVE SubsetsUpTo(_, _)
\* the subsets of S of at most n elements
SubsetsUpTo(S, n) ==
    IF n = 0 THEN {{}}
    ELSE LET P == SubsetsUpTo(S, n - 1)
         IN  P \cup {p \cup {x} : p \in P, x \in S}

InitWrite ==
    /\ un = IdleUn
    /\ file = NoFile
    /\ pair = IdlePair
    /\ ema = IdleEma
    /\ \E td \in CallerDocs :
       \E U \in SubsetsUpTo(UnsetFields(td), MaxUnset) :
          dec = [IdleDecoder EXCEPT
                   !.pc = "external",
                   !.teds = [i \in 1..Len(td) |->
                               IF i \in U THEN td[i] ELSE SetByCode(td[i], 0)]]

\* the caller assigns a value to a field still unset
SetVal ==
    /\ dec.pc = "external" /\ file.state = "none"
    /\ \E i \in UnsetFields(dec.teds), k \in 0..MaxSetCode :
          dec' = [dec EXCEPT !.teds[i] = SetByCode(dec.teds[i], k)]
    /\ UNCHANGED <<file, un, pair, ema>>

WriteTedsToFile ==
    /\ dec.pc = "external" /\ file.state = "none"
    /\ file' \in write_teds_to_file(dec.teds)
    /\ UNCHANGED <<dec, un, pair, ema>>

NextWrite == SetVal \/ WriteTedsToFile

SpecWrite == InitWrite /\ [][NextWrite]_vars

\* C20: when an UnsignedInt, Date, ConstantLinear or ConstantExponential
\* field of the document is unset, to_bits of that field raises ValueError,
\* write_teds_to_file fails with it (or with the exception of a field written
\* before it) and no file is created or written.
C20_UnsetFieldFails ==
    (dec.pc = "external" /\ file.state # "none" /\ UnsetFields(dec.teds) # {}) =>
        LET i == CHOOSE j \in UnsetFields(dec.teds) :
                     \A m \in UnsetFields(dec.teds) : j <= m
        IN  /\ to_bits(dec.teds[i]) = {Raised("ValueError")}
            /\ file.state = "failed"
            /\ file.bits = <<>>
            /\ \/ file.err = "ValueError"
               \/ \E j \in 1..(i - 1) : Raised(file.err) \in to_bits(dec.teds[j])

C20_Witness ==
    /\ dec.pc = "external" /\ file.state = "failed" /\ file.err = "ValueError"
    /\ \E i \in UnsetFields(dec.teds) : dec.teds[i].name = "calibration_date"
    /\ Cardinality(UnsetFields(dec.teds)) = 1

----------------------------------------------------------------------------
(* Constant elements *)

\* the ConstantTedsElement entries of the templates
ConstantElements ==
    {AllTds[i] : i \in {j \in 1..Len(AllTds) : AllTds[j].kind = "Constant"}}

ConstantNames == {e.name : e \in ConstantElements}

\* C21: a ConstantTedsElement is outside the stream: the read that process
\* makes for it takes no bits and leaves the cursor where it was, the element
\* keeps the label of its template entry, and a written file holds the
\* preamble and the bits of the non-constant fields only.
C21_ConstantOutsideStream ==
    /\ \A i \in 1..Len(dec.log) :
          dec.log[i].name \in ConstantNames =>
             /\ dec.log[i].len = 0
             /\ IF i < Len(dec.log) THEN dec.log[i + 1].pos = dec.log[i].pos
                ELSE dec.pos = dec.log[i].pos
    /\ \A i \in 1..Len(dec.teds) :
          dec.teds[i].kind = "Constant" => dec.teds[i] \in ConstantElements
    /\ \A i \in 1..Len(dec.td) :
          dec.td[i].kind = "Constant" => dec.td[i] \in ConstantElements
    /\ (dec.pc = "done" /\ file.state = "written") =>
          Len(file.bits) = Len(ni_preamble) + EmittedWidth(dec.teds)

C21_Witness ==
    /\ dec.pc = "done" /\ file.state = "written"
    /\ Logged(dec, "elec_sig_type") /\ Logged(dec, "mapping_method")
    /\ Item(dec.teds, "mapping_method").label = "Voltage Sensor"
    /\ Len(file.bits) = 40 + 59 + 74 + 57 + 7

----------------------------------------------------------------------------
(* SpecPair: two StandardTeds constructors, each on its own bitstream,     *)
(* interleaved at the reads of process. pair.d[i] is the i-th call (its    *)
(* cursor, its td and elements), pair.heap[k] the contents of the k-th     *)
(* dict object, pair.n[i] the steps the i-th call has taken.               *)

\* the next step of one constructor
Step(d) ==
    CASE d.pc = "start" -> Construct(d)
      [] d.pc = "process" /\ d.idx <= Len(d.td) -> ProcessField(d)
      [] GroupDone(d, "header") -> AfterHeader(d)
      [] GroupDone(d, "selectors") -> AfterSelectors(d)
      [] GroupDone(d, "no_ext") \/ GroupDone(d, "ext") -> AfterBranch(d)
      [] GroupDone(d, "common") -> AfterCommon(d)
      [] GroupDone(d, "transfer") -> AfterTransfer(d)
      [] GroupDone(d, "ref") -> AfterRef(d)
      [] GroupDone(d, "thermocouple") -> AfterThermocouple(d)
      [] GroupDone(d, "trailer") -> AfterTrailer(d)
      [] OTHER -> d

Running(d) == d.pc \in {"start", "process"}

RECURSIVE RunFor(_, _)
\* a constructor run on its own for n steps
RunFor(d, n) == IF n = 0 THEN d ELSE RunFor(Step(d), n - 1)

\* the i-th call as it sees itself: its fields, and the dict self.teds names
View(p, i) == [p.d[i] EXCEPT !.teds = p.heap[teds_ref(i)]]

\* one step of the i-th call; what it wrote to self.teds is in the dict
StepPair(p, i) ==
    LET d == Step(View(p, i))
    IN  [p EXCEPT !.d[i] = d, !.heap[teds_ref(i)] = d.teds, !.n[i] = p.n[i] + 1]

\* the streams the two calls are given: with preamble, no user data, of both
\* families, a force sensor, and streams cut short
PairInputs ==
    {p \in Inputs : /\ p.prefix = "ni" /\ p.ulen = 0 /\ p.fill = 1 /\ p.ver = 2
                    /\ p.tid \in {25, 36} /\ p.ef = 0 /\ p.tf = 0 /\ p.cut <= 1}

InitPair ==
    /\ dec = IdleDecoder
    /\ file = NoFile
    /\ un = IdleUn
    /\ ema = IdleEma
    /\ \E p1 \in PairInputs, p2 \in PairInputs :
          pair = [d |-> << NewDecoder(Stream(p1), TRUE), NewDecoder(Stream(p2), TRUE) >>,
                  heap |-> << <<>>, <<>> >>,
                  n |-> << 0, 0 >>]

StepFirst ==
    /\ Running(View(pair, 1))
    /\ pair' = StepPair(pair, 1)
    /\ UNCHANGED <<dec, file, un, ema>>

StepSecond ==
    /\ Running(View(pair, 2))
    /\ pair' = StepPair(pair, 2)
    /\ UNCHANGED <<dec, file, un, ema>>

NextPair == StepFirst \/ StepSecond

SpecPair == InitPair /\ [][NextPair]_vars

\* C22: whatever the interleaving of the two constructors, each is, after
\* each of its steps, where it would be had it run alone on its bitstream:
\* the same cursor, the same document so far, the same failure.
C22_NoInterference ==
    \A i \in 1..Len(pair.d) :
        View(pair, i) =
            RunFor(NewDecoder(pair.d[i].bitstream, pair.d[i].has_preamble),
                   pair.n[i])

C22_Witness ==
    /\ Len(pair.d) = 2
    /\ View(pair, 1).pc = "done" /\ View(pair, 2).pc = "failed"
    /\ Item(View(pair, 1).teds, "template_id").num = 36
    /\ View(pair, 2).err = "NotImplementedError"
    /\ pair.d[1].bitstream # pair.d[2].bitstream

----------------------------------------------------------------------------
(* SpecList: convert_nidaqmax_list_to_bitstream on a list of integers, then *)
(* one aligned group of 8 bits of its result read as an UnIntTedsElement(8) *)

\* the integers of the lists of two and more items
ListSample == {0, 1, 2, 37, 128, 254, 255}

ListInputs ==
    {<<>>} \cup {<<v>> : v \in 0..255}
    \cup UNION {[1..n -> ListSample] : n \in 2..MaxItems}

InitList ==
    /\ dec = IdleDecoder
    /\ file = NoFile
    /\ pair = IdlePair
    /\ ema = IdleEma
    /\ \E l \in ListInputs :
          un = [pc |-> "list", list |-> l, bits |-> <<>>, pos |-> -1,
                i |-> 0, e |-> UnIntTedsElement("field", 8)]

ConvertList ==
    /\ un.pc = "list"
    /\ un' = [un EXCEPT !.pc = "converted",
                        !.bits = convert_nidaqmax_list_to_bitstream(un.list),
                        !.pos = 0]
    /\ UNCHANGED <<dec, file, pair, ema>>

\* UnIntTedsElement(8).from_bits on the i-th aligned group of 8 bits
ReadGroup ==
    /\ un.pc = "converted"
    /\ \E i \in 1..(Len(un.bits) \div 8) :
          un' = [un EXCEPT !.pc = "read", !.i = i,
                           !.e = from_bits(un.e, SubSeq(un.bits, 8 * i - 7, 8 * i)).e]
    /\ UNCHANGED <<dec, file, pair, ema>>

NextList == ConvertList \/ ReadGroup

SpecList == InitList /\ [][NextList]_vars

\* C23: the bitstream made of a list of integers in 0..255 has 8 bits for
\* every item and position 0, its i-th group of 8 bits is the i-th integer
\* least significant bit first, and an UnIntTedsElement(8) reads the integer
\* back from the group.
C23_ListConversion ==
    un.pc \in {"converted", "read"} =>
        /\ Len(un.bits) = 8 * Len(un.list)
        /\ un.pos = 0
        /\ \A i \in 1..Len(un.list) :
              \A j \in 1..8 :
                 un.bits[8 * (i - 1) + j] = (un.list[i] \div Pow2(j - 1)) % 2
        /\ un.pc = "read" => (un.e.isset /\ un.e.num = un.list[un.i])

C23_Witness ==
    /\ un.pc = "read"
    /\ un.list = <<37, 0, 254>>
    /\ un.bits = <<1, 0, 1, 0, 0, 1, 0, 0>> \o Zeros(8) \o <<0, 1, 1, 1, 1, 1, 1, 1>>
    /\ un.i = 3 /\ un.e.num = 254

----------------------------------------------------------------------------
(* SpecEma: the measurement list of one SDLMAEMA object                    *)
(* (sdlma_modal_analysis/sdlma_ema.py). A measurement is known by its id;  *)
(* signal names are numbered: every measurement has the excitation 0 and   *)
(* the responses k and k + 1, so neighbours share a response.              *)

\* the k-th SDLMAMeasurement the caller holds
Measurement(k) == [id |-> k, exc |-> <<0>>, resp |-> <<k, k + 1>>]

\* SDLMAMeasurement.get_names
get_names(m) == <<m.exc, m.resp>>

InList(x, list) == \E i \in 1..Len(list) : list[i] = x

RECURSIVE AppendNew(_, _)
\* the inner loop of get_unique_names
AppendNew(unique_names, names) ==
    IF names = <<>> THEN unique_names
    ELSE AppendNew(IF InList(Head(names), unique_names) THEN unique_names
                   ELSE Append(unique_names, Head(names)),
                   Tail(names))

RECURSIVE UniqueFrom(_, _)
\* the outer loop of get_unique_names
UniqueFrom(unique_names, measurements) ==
    IF measurements = <<>> THEN unique_names
    ELSE LET n == get_names(Head(measurements))
         IN  UniqueFrom(AppendNew(unique_names, n[1] \o n[2]), Tail(measurements))

get_unique_names(measurements) == UniqueFrom(<<>>, measurements)

\* the last three calls made on the object
Called(op, arg) ==
    LET h == Append(ema.hist, [op |-> op, arg |-> arg])
    IN  IF Len(h) > 3 THEN Tail(h) ELSE h

InitEma ==
    /\ dec = IdleDecoder
    /\ file = NoFile
    /\ un = IdleUn
    /\ pair = IdlePair
    /\ ema = [pc |-> "live", measurements |-> <<>>, hist |-> <<>>, names |-> <<>>]

\* add_measurement of a measurement not yet in the list
AddMeasurement ==
    /\ ema.pc = "live"
    /\ \E k \in 1..MaxMeas :
          /\ ~InList(Measurement(k), ema.measurements)
          /\ ema' = [ema EXCEPT !.measurements = Append(@, Measurement(k)),
                                !.hist = Called("add", k)]
    /\ UNCHANGED <<dec, file, un, pair>>

\* remove_measurement: the body of the method is pass
RemoveMeasurement ==
    /\ ema.pc = "live"
    /\ \E k \in 1..MaxMeas :
          ema' = [ema EXCEPT !.hist = Called("remove", k)]
    /\ UNCHANGED <<dec, file, un, pair>>

GetUniqueNames ==
    /\ ema.pc = "live"
    /\ ema' = [ema EXCEPT !.names = get_unique_names(ema.measurements),
                          !.hist = Called("names", 0)]
    /\ UNCHANGED <<dec, file, un, pair>>

NextEma == AddMeasurement \/ RemoveMeasurement \/ GetUniqueNames

SpecEma == InitEma /\ [][NextEma]_vars

\* the calls add_measurement(m), remove_measurement(m) were the last two
\* before the n latest calls
AddedThenRemoved(k, n) ==
    LET h == ema.hist
    IN  /\ Len(h) >= n + 2
        /\ h[Len(h) - n - 1] = [op |-> "add", arg |-> k]
        /\ h[Len(h) - n] = [op |-> "remove", arg |-> k]

\* C24: right after add_measurement(m), remove_measurement(m) the
\* measurement m is not in self.measurements, and a get_unique_names that
\* follows reports no name that only m has.
C24_RemoveMeasurement ==
    \A k \in 1..MaxMeas :
        /\ AddedThenRemoved(k, 0) => ~InList(Measurement(k), ema.measurements)
        /\ (AddedThenRemoved(k, 1) /\ ema.hist[Len(ema.hist)].op = "names") =>
              \A i \in 1..Len(ema.names) :
                 \E j \in 1..Len(ema.measurements) :
                    /\ ema.measurements[j] # Measurement(k)
                    /\ LET n == get_names(ema.measurements[j])
                       IN  InList(ema.names[i], n[1] \o n[2])

----------------------------------------------------------------------------
(* The cursor *)

\* every entry of the td dicts of the constructor and the templates
TemplateFields ==
    LET all == HeaderTd \o SelectorTd \o AllTds \o EndTd
    IN  {all[i] : i \in 1..Len(all)}

\* process is about to read a fixed-width field that the stream cannot fill
ShortRead(d) ==
    /\ d.pc = "process" /\ d.idx <= Len(d.td)
    /\ d.td[d.idx].len >= 0
    /\ Len(d.bitstream) - d.pos < d.td[d.idx].len

CursorInBounds(d) ==
    /\ 0 <= d.pos /\ d.pos <= Len(d.bitstream)
    /\ \A i \in 1..Len(d.log) :
          /\ d.log[i].pos + d.log[i].len <= Len(d.bitstream)
          /\ \E e \in TemplateFields :
                e.name = d.log[i].name /\ (e.len = d.log[i].len \/ e.len = -1)
    /\ d.pc = "done" => \A i \in 1..Len(d.teds) : d.teds[i].isset

\* C25: the cursor stays within 0..length of the stream and never moves
\* back; every field read has the full width its template entry gives it;
\* a fixed-width read with too few bits left fails the decode with ReadError
\* and reads nothing, so no document is returned for a stream that ends
\* inside a fixed-width field.
C25_CursorBound ==
    /\ [] CursorInBounds(dec)
    /\ [][dec'.pos >= dec.pos]_vars
    /\ [][ShortRead(dec) =>
            (/\ dec'.pc = "failed" /\ dec'.err = "ReadError"
             /\ dec'.log = dec.log /\ dec'.teds = dec.teds
             /\ dec'.pos = dec.pos)]_vars
    /\ [](ShortRead(dec) => [](dec.pc # "done"))

C25_Witness ==
    /\ dec.pc = "failed" /\ dec.err = "ReadError"
    /\ Len(dec.log) > 7
    /\ dec.idx <= Len(dec.td)
    /\ dec.td[dec.idx].len > Len(dec.bitstream) - dec.pos
    /\ Len(dec.bitstream) - dec.pos > 0


\* C26: when the constructor returns the cursor is at the end of the stream:
\* the last read is user_data, it starts right after extended_end_selector
\* and takes every bit that is left, and no other field is read with the
\* remainder width.
C26_WholeBufferConsumed ==
    /\ \A e \in TemplateFields : e.len = -1 <=> e.name = "user_data"
    /\ \A i \in 1..Len(dec.log) :
          dec.log[i].name = "user_data" =>
             /\ i = Len(dec.log)
             /\ i > 1 /\ dec.log[i - 1].name = "extended_end_selector"
             /\ dec.log[i].pos = dec.log[i - 1].pos + 1
             /\ dec.log[i].pos + dec.log[i].len = Len(dec.bitstream)
    /\ Returned(dec) =>
          /\ dec.pos = Len(dec.bitstream)
          /\ dec.log[Len(dec.log)].name = "user_data"

C26_Witness ==
    /\ Returned(dec)
    /\ dec.pos = Len(dec.bitstream)
    /\ dec.log[Len(dec.log)].len = MaxUserBits
    /\ Len(Item(dec.teds, "user_data").text) = MaxUserBits \div 7

----------------------------------------------------------------------------
(* Order *)

NameSeq(s) == [i \in 1..Len(s) |-> s[i].name]

\* to_bits of these classes gives back the window from_bits was given
ExactKinds == {"UnInt", "Date", "Chr5"}

\* C27: the names of the document are, in order, the names of the fields
\* read (those of the td dicts already merged, while the constructor runs),
\* no name is read twice, and a written file holds the bits of the fields in
\* that order: behind the preamble, every field is at the offset it has in
\* the stream, and the fields whose classes round-trip exactly hold the bits
\* read.
C27_ReadOrder ==
    /\ \A i, j \in 1..Len(dec.log) : dec.log[i].name = dec.log[j].name => i = j
    /\ Len(dec.teds) <= Len(dec.log)
    /\ NameSeq(dec.teds) = SubSeq(NameSeq(dec.log), 1, Len(dec.teds))
    /\ Returned(dec) => NameSeq(dec.teds) = NameSeq(dec.log)
    /\ (Returned(dec) /\ file.state = "written") =>
          \A i \in 1..Len(dec.log) :
             LET at == Len(ni_preamble) + dec.log[i].pos - HeaderStart(dec)
             IN  /\ at = Len(ni_preamble) + EmittedWidth(SubSeq(dec.teds, 1, i - 1))
                 /\ dec.teds[i].kind \in ExactKinds =>
                       SubSeq(file.bits, at + 1, at + dec.log[i].len) = Window(dec, i)

C27_Witness ==
    /\ Returned(dec) /\ file.state = "written"
    /\ HasKey(dec.teds, "transfer_function")
    /\ Item(dec.teds, "transfer_function").num = 1
    /\ Item(dec.teds, "extended_functionality").num = 1
    /\ NameSeq(dec.teds) = NameSeq(dec.log)
    /\ Len(dec.teds) = 7 + 2 + 17 + 7 + 5 + 2 + 7

----------------------------------------------------------------------------
(* The thermocouple family *)

ThermoNames ==
    << "elec_sig_type", "minimum_temperature", "maximum_temperature",
       "minimum_electrical_output", "maximum_electrical_output",
       "mapping_method", "thermocouple_type", "cjc_required_or_compensated",
       "thermocouple_resistance", "sensor_response_time" >>

ThermoWidths == << 0, 11, 11, 7, 7, 0, 4, 1, 12, 6 >>

ThermoOffsets == << 0, 0, 11, 22, 29, 36, 36, 40, 41, 53 >>

\* C28: with template_id 36 the reads after the header are, in order,
\* minimum_temperature(11), maximum_temperature(11),
\* minimum_electrical_output(7), maximum_electrical_output(7),
\* thermocouple_type(4), cjc_required_or_compensated(1),
\* thermocouple_resistance(12), sensor_response_time(6), with the markers
\* elec_sig_type and mapping_method read with 0 bits before the first and the
\* fifth of them; the trailer starts 59 bits after the header, and the
\* document holds the eight values and the two markers. No other template
\* reads these fields.
C28_ThermocoupleBody ==
    /\ (Len(dec.log) >= 7 /\ StreamTemplateId(dec) = 36) =>
          LET body == HeaderStart(dec) + 74
          IN  /\ \A i \in 1..10 :
                    Len(dec.log) >= 7 + i =>
                        dec.log[7 + i] = [name |-> ThermoNames[i],
                                          len |-> ThermoWidths[i],
                                          pos |-> body + ThermoOffsets[i]]
              /\ Len(dec.log) >= 18 =>
                    dec.log[18] = [name |-> "calibration_date", len |-> 16,
                                   pos |-> body + 59]
              /\ Returned(dec) =>
                    /\ \A i \in 1..10 : ThermoNames[i] \in Names(dec.teds)
                    /\ Item(dec.teds, "elec_sig_type")
                          = ConstantTedsElement("elec_sig_type", 0, "Voltage Sensor")
                    /\ Item(dec.teds, "mapping_method")
                          = ConstantTedsElement("mapping_method", 0, "Voltage Sensor")
                    /\ Item(dec.teds, "thermocouple_type").num
                          = LsbValue(Window(dec, 14))
    /\ Logged(dec, "minimum_temperature") => StreamTemplateId(dec) = 36

C28_Witness ==
    /\ Returned(dec)
    /\ Item(dec.teds, "template_id").num = 36
    /\ HasKey(dec.teds, "mapping_method")
    /\ dec.log[LogIndex(dec, "calibration_date")].pos
          = dec.log[LogIndex(dec, "template_id")].pos + 8 + 59
    /\ Item(dec.teds, "sensor_response_time").num = 63

====
